---- MODULE Spec2Model ----
(***************************************************************************)
(* Model of the IPv4 arithmetic engine of network_calculator.py            *)
(* (class NetworkCalculator).  Every public method is a pure function of   *)
(* its arguments; the state machine below applies one method to one input  *)
(* per step and records the call and what it returned or raised.           *)
(*                                                                         *)
(* Text is modelled as a sequence of one-character strings, so parsing and *)
(* formatting are computed, not assumed.  Python integers are unbounded;   *)
(* values that can reach 2^32 are kept as a pair <<hi, lo>> standing for   *)
(* hi * 2^16 + lo with lo in 0 .. 2^16 - 1 ("wide" integers).              *)
(***************************************************************************)
EXTENDS Integers, Sequences, FiniteSets, TLC

-----------------------------------------------------------------------------
(* Wide integers: Python int arithmetic on values up to 2^32 and down to -2 *)

Limb == 2^16

WNorm(h, l) == <<h + (l \div Limb), l % Limb>>

WInt(n) == WNorm(0, n)

WAdd(a, b) == WNorm(a[1] + b[1], a[2] + b[2])

WSub(a, b) == WNorm(a[1] - b[1], a[2] - b[2])

WLess(a, b) == a[1] < b[1] \/ (a[1] = b[1] /\ a[2] < b[2])

WLeq(a, b) == a = b \/ WLess(a, b)

RECURSIVE BitAnd(_, _)
BitAnd(x, y) ==
    IF x = 0 \/ y = 0 THEN 0
    ELSE (x % 2) * (y % 2) + 2 * BitAnd(x \div 2, y \div 2)

RECURSIVE BitOr(_, _)
BitOr(x, y) ==
    IF x = 0 THEN y
    ELSE IF y = 0 THEN x
    ELSE (IF x % 2 = 1 \/ y % 2 = 1 THEN 1 ELSE 0) + 2 * BitOr(x \div 2, y \div 2)

RECURSIVE BitXor(_, _)
BitXor(x, y) ==
    IF x = 0 THEN y
    ELSE IF y = 0 THEN x
    ELSE ((x + y) % 2) + 2 * BitXor(x \div 2, y \div 2)

\* a & b, a | b, a ^ b on non-negative values
WAnd(a, b) == <<BitAnd(a[1], b[1]), BitAnd(a[2], b[2])>>

WOr(a, b) == <<BitOr(a[1], b[1]), BitOr(a[2], b[2])>>

WXor(a, b) == <<BitXor(a[1], b[1]), BitXor(a[2], b[2])>>

\* a >> k on a non-negative value
WShr(a, k) ==
    IF k >= 16 THEN WNorm(0, a[1] \div 2^(k - 16))
    ELSE WNorm(a[1] \div 2^k, (a[1] % 2^k) * 2^(16 - k) + a[2] \div 2^k)

\* a << k on a non-negative value whose result stays below 2^47 (here: at most 2^32)
WShl(a, k) ==
    IF k >= 16 THEN WNorm((a[1] * Limb + a[2]) * 2^(k - 16), 0)
    ELSE WNorm(a[1] * 2^k, a[2] * 2^k)

\* the number of trailing zero bits of a positive value
RECURSIVE TrailingZeros(_)
TrailingZeros(n) == IF n % 2 = 1 THEN 0 ELSE 1 + TrailingZeros(n \div 2)

-----------------------------------------------------------------------------
(* Text: str is a sequence of characters                                   *)

DigitChars == <<"0", "1", "2", "3", "4", "5", "6", "7", "8", "9">>

IsDigit(c) == \E d \in 1..10 : DigitChars[d] = c

DigitVal(c) == (CHOOSE d \in 1..10 : DigitChars[d] = c) - 1

\* str.isascii() and str.isdigit(): non-empty and decimal digits only
IsDigits(s) == Len(s) > 0 /\ \A i \in 1..Len(s) : IsDigit(s[i])

\* int(s, 10) for a string of decimal digits
RECURSIVE ParseDigits(_)
ParseDigits(s) ==
    IF Len(s) = 0 THEN 0
    ELSE 10 * ParseDigits(SubSeq(s, 1, Len(s) - 1)) + DigitVal(s[Len(s)])

\* str(n) for a non-negative int
RECURSIVE NatStr(_)
NatStr(n) ==
    IF n < 10 THEN <<DigitChars[n + 1]>>
    ELSE NatStr(n \div 10) \o <<DigitChars[(n % 10) + 1]>>

\* str(n) for an int
IntStr(n) == IF n < 0 THEN <<"-">> \o NatStr(0 - n) ELSE NatStr(n)

\* str(w) for a wide int: decimal digits, most significant first
RECURSIVE WNatStr(_)
WNatStr(w) ==
    IF w[1] = 0 THEN NatStr(w[2])
    ELSE LET rh   == w[1] % 10
             rest == rh * Limb + w[2]
         IN  WNatStr(WNorm(w[1] \div 10, rest \div 10))
                 \o <<DigitChars[(rest % 10) + 1]>>

WStr(w) == IF w[1] < 0 THEN <<"-">> \o WNatStr(WSub(<<0, 0>>, w)) ELSE WNatStr(w)

\* s.split(sep): the list of pieces between occurrences of sep
RECURSIVE Split(_, _)
Split(s, sep) ==
    IF \A i \in 1..Len(s) : s[i] # sep THEN <<s>>
    ELSE LET k == CHOOSE i \in 1..Len(s) :
                      s[i] = sep /\ \A j \in 1..(i - 1) : s[j] # sep
         IN  <<SubSeq(s, 1, k - 1)>> \o Split(SubSeq(s, k + 1, Len(s)), sep)

\* sep.join(parts)
RECURSIVE Join(_, _)
Join(parts, sep) ==
    IF Len(parts) = 0 THEN <<>>
    ELSE IF Len(parts) = 1 THEN parts[1]
    ELSE parts[1] \o <<sep>> \o Join(Tail(parts), sep)

-----------------------------------------------------------------------------
(* The ipaddress library as the calculator uses it.  A parse returns       *)
(* [ok |-> TRUE, val |-> v] or [ok |-> FALSE, exc |-> name of exception].  *)

MAX_PREFIXLEN == 32

ALL_ONES == <<Limb - 1, Limb - 1>>

Ok(v) == [ok |-> TRUE, val |-> v]

Raise(e) == [ok |-> FALSE, exc |-> e]

\* IPv4Address._parse_octet: a decimal octet 0..255, at most three digits,
\* no leading zero; anything else raises ValueError
parse_octet(octet_str) ==
    IF Len(octet_str) = 0 THEN Raise("ValueError")
    ELSE IF ~IsDigits(octet_str) THEN Raise("ValueError")
    ELSE IF Len(octet_str) > 3 THEN Raise("ValueError")
    ELSE IF octet_str # <<"0">> /\ octet_str[1] = "0" THEN Raise("ValueError")
    ELSE IF ParseDigits(octet_str) > 255 THEN Raise("ValueError")
    ELSE Ok(ParseDigits(octet_str))

\* int.from_bytes(octets, 'big')
FromOctets(o) == <<o[1] * 256 + o[2], o[3] * 256 + o[4]>>

\* the four bytes of a 32-bit value, most significant first
ToOctets(w) == <<w[1] \div 256, w[1] % 256, w[2] \div 256, w[2] % 256>>

\* IPv4Address._ip_int_from_string
ip_int_from_string(ip_str) ==
    IF Len(ip_str) = 0 THEN Raise("AddressValueError")
    ELSE LET octets == Split(ip_str, ".")
         IN  IF Len(octets) # 4 THEN Raise("AddressValueError")
             ELSE IF \E i \in 1..4 : ~parse_octet(octets[i]).ok
                  THEN Raise("AddressValueError")
             ELSE Ok(FromOctets([i \in 1..4 |-> parse_octet(octets[i]).val]))

\* IPv4Address(text)
IPv4AddressFromStr(addr_str) ==
    IF \E i \in 1..Len(addr_str) : addr_str[i] = "/"
    THEN Raise("AddressValueError")
    ELSE ip_int_from_string(addr_str)

\* IPv4Address(int): _check_int_address
IPv4AddressFromInt(w) ==
    IF WLess(w, <<0, 0>>) THEN Raise("AddressValueError")
    ELSE IF WLess(ALL_ONES, w) THEN Raise("AddressValueError")
    ELSE Ok(w)

\* str(IPv4Address): '.'.join(map(str, packed))
string_from_ip_int(w) ==
    Join([i \in 1..4 |-> NatStr(ToOctets(w)[i])], ".")

\* _ip_int_from_prefix: ALL_ONES ^ (ALL_ONES >> prefixlen)
ip_int_from_prefix(prefixlen) == WXor(ALL_ONES, WShr(ALL_ONES, prefixlen))

\* _count_righthand_zero_bits(number, bits)
count_righthand_zero_bits(w, bits) ==
    IF w = <<0, 0>> THEN bits
    ELSE IF w[2] # 0 THEN TrailingZeros(w[2])
    ELSE 16 + TrailingZeros(w[1])

\* _prefix_from_ip_int: raises ValueError when zeroes and ones are mixed
prefix_from_ip_int(ip_int) ==
    LET trailing_zeroes == count_righthand_zero_bits(ip_int, MAX_PREFIXLEN)
        prefixlen       == MAX_PREFIXLEN - trailing_zeroes
        leading_ones    == WShr(ip_int, trailing_zeroes)
        all_ones        == WSub(WShl(<<0, 1>>, prefixlen), <<0, 1>>)
    IN  IF leading_ones # all_ones THEN Raise("ValueError") ELSE Ok(prefixlen)

\* _prefix_from_prefix_string
prefix_from_prefix_string(prefixlen_str) ==
    IF ~IsDigits(prefixlen_str) THEN Raise("NetmaskValueError")
    ELSE IF Len(prefixlen_str) > 9 THEN Raise("NetmaskValueError")
    ELSE IF ~(ParseDigits(prefixlen_str) <= MAX_PREFIXLEN)
         THEN Raise("NetmaskValueError")
    ELSE Ok(ParseDigits(prefixlen_str))

\* a reading of the dotted form that tries the hostmask before the netmask
prefix_from_ip_string_hostmask_first(ip_str) ==
    LET parsed == ip_int_from_string(ip_str)
    IN  IF ~parsed.ok THEN Raise("NetmaskValueError")
        ELSE IF prefix_from_ip_int(WXor(parsed.val, ALL_ONES)).ok
             THEN prefix_from_ip_int(WXor(parsed.val, ALL_ONES))
        ELSE IF prefix_from_ip_int(parsed.val).ok
             THEN prefix_from_ip_int(parsed.val)
        ELSE Raise("NetmaskValueError")

\* _prefix_from_ip_string: a netmask, or else a hostmask, in dotted form
prefix_from_ip_string(ip_str) ==
    LET parsed == ip_int_from_string(ip_str)
    IN  IF ~parsed.ok THEN Raise("NetmaskValueError")
        ELSE IF prefix_from_ip_int(parsed.val).ok
             THEN prefix_from_ip_int(parsed.val)
        ELSE IF prefix_from_ip_int(WXor(parsed.val, ALL_ONES)).ok
             THEN prefix_from_ip_int(WXor(parsed.val, ALL_ONES))
        ELSE Raise("NetmaskValueError")

\* _make_netmask for a text argument: the prefix length
make_netmask(arg) ==
    IF prefix_from_prefix_string(arg).ok THEN prefix_from_prefix_string(arg)
    ELSE prefix_from_ip_string(arg)

\* a network object: its (masked) network address and its prefix length
Net(addr, prefixlen) == [network_address |-> addr, prefixlen |-> prefixlen]

netmask(net) == ip_int_from_prefix(net.prefixlen)

hostmask(net) == WXor(netmask(net), ALL_ONES)

broadcast_address(net) == WOr(net.network_address, hostmask(net))

num_addresses(net) ==
    WAdd(WSub(broadcast_address(net), net.network_address), <<0, 1>>)

\* a strict-minded constructor that keeps the address as it was given
NetOfUnmasked(addr, prefixlen) == Net(addr, prefixlen)

\* IPv4Network((int, prefixlen)): host bits are masked off
NetOf(addr, prefixlen) == Net(WAnd(addr, ip_int_from_prefix(prefixlen)), prefixlen)

\* IPv4Network(text, strict=False)
IPv4Network(address) ==
    LET parts == Split(address, "/")
    IN  IF Len(parts) > 2 THEN Raise("AddressValueError")
        ELSE LET addr == IPv4AddressFromStr(parts[1])
                 mask == IF Len(parts) > 1 THEN make_netmask(parts[2])
                         ELSE Ok(MAX_PREFIXLEN)
             IN  IF ~addr.ok THEN addr
                 ELSE IF ~mask.ok THEN mask
                 ELSE Ok(NetOf(addr.val, mask.val))

-----------------------------------------------------------------------------
(* Library operations on networks                                          *)

\* other.subnet_of(self)
subnet_of(a, b) ==
    /\ WLeq(b.network_address, a.network_address)
    /\ WLeq(broadcast_address(a), broadcast_address(b))

\* range(start, end, step), at most limit items of it
RECURSIVE RangeItems(_, _, _, _)
RangeItems(start, end, step, limit) ==
    IF limit = 0 \/ ~WLess(start, end) THEN <<>>
    ELSE <<start>> \o RangeItems(WAdd(start, step), end, step, limit - 1)

\* net.subnets(new_prefix=new_prefix): the first limit networks it yields
subnets(net, new_prefix, limit) ==
    IF net.prefixlen = MAX_PREFIXLEN THEN SubSeq(<<net>>, 1, limit)
    ELSE LET prefixlen_diff == new_prefix - net.prefixlen
             start == net.network_address
             end   == WAdd(broadcast_address(net), <<0, 1>>)
             step  == WShr(WAdd(hostmask(net), <<0, 1>>), prefixlen_diff)
             addrs == RangeItems(start, end, step, limit)
         IN  [i \in 1..Len(addrs) |-> NetOf(addrs[i], new_prefix)]

\* the loop of address_exclude: s1, s2 are the halves of the block that
\* still holds other; the half without it is yielded
RECURSIVE ExcludeLoop(_, _, _)
ExcludeLoop(s1, s2, other) ==
    IF s1 = other THEN <<s2>>
    ELSE IF s2 = other THEN <<s1>>
    ELSE IF subnet_of(other, s1)
         THEN <<s2>> \o ExcludeLoop(subnets(s1, s1.prefixlen + 1, 2)[1],
                                    subnets(s1, s1.prefixlen + 1, 2)[2], other)
    ELSE <<s1>> \o ExcludeLoop(subnets(s2, s2.prefixlen + 1, 2)[1],
                               subnets(s2, s2.prefixlen + 1, 2)[2], other)

\* an exclusion that hands back the whole block, the allocated part included
address_exclude_nothing(self, other) ==
    IF other = self THEN <<>> ELSE <<self>>

\* list(self.address_exclude(other)) for other inside self
address_exclude(self, other) ==
    IF other = self THEN <<>>
    ELSE ExcludeLoop(subnets(self, self.prefixlen + 1, 2)[1],
                     subnets(self, self.prefixlen + 1, 2)[2], other)

\* floor(log2(n)): what rounding the logarithm down would give
RECURSIVE FloorLog2(_)
FloorLog2(n) == IF n <= 1 THEN 0 ELSE 1 + FloorLog2(n \div 2)

\* the smallest b with 2^b >= n
RECURSIVE CeilLog2(_)
CeilLog2(n) == IF n <= 1 THEN 0 ELSE 1 + CeilLog2((n + 1) \div 2)

\* a logarithm that is defined for every integer
ceil_log2_total(n) == Ok(CeilLog2(n))

\* math.ceil(math.log2(n)): math.log2 raises ValueError unless n > 0
ceil_log2(n) == IF n <= 0 THEN Raise("ValueError") ELSE Ok(CeilLog2(n))

\* int.bit_length()
RECURSIVE BitLength(_)
BitLength(n) == IF n = 0 THEN 0 ELSE 1 + BitLength(n \div 2)

WBitLength(w) == IF w[1] > 0 THEN 16 + BitLength(w[1]) ELSE BitLength(w[2])

\* net.supernet(): the enclosing block one bit shorter; a /0 is its own
\* supernet.  The address is masked with netmask << 1.
supernet(net) ==
    IF net.prefixlen = 0 THEN net
    ELSE NetOf(WAnd(net.network_address, WShl(netmask(net), 1)),
               net.prefixlen - 1)

\* _BaseNetwork.__lt__: by network address, then by netmask
NetLess(a, b) ==
    IF a.network_address # b.network_address
    THEN WLess(a.network_address, b.network_address)
    ELSE WLess(netmask(a), netmask(b))

\* sorted(set(ips)) for a set of addresses
RECURSIVE SortedAddresses(_)
SortedAddresses(ips) ==
    IF ips = {} THEN <<>>
    ELSE LET least == CHOOSE a \in ips : \A b \in ips : WLeq(a, b)
         IN  <<least>> \o SortedAddresses(ips \ {least})

\* sorted(subnets.values())
RECURSIVE SortedNetworks(_)
SortedNetworks(nets) ==
    IF nets = {} THEN <<>>
    ELSE LET least == CHOOSE a \in nets : \A b \in nets : a = b \/ NetLess(a, b)
         IN  <<least>> \o SortedNetworks(nets \ {least})

\* _find_address_range over addresses[i..], with the range first..last open:
\* the list of <<first, last>> pairs of consecutive addresses
RECURSIVE find_address_range(_, _, _, _)
find_address_range(addresses, i, first, last) ==
    IF i > Len(addresses) THEN << <<first, last>> >>
    ELSE IF addresses[i] # WAdd(last, <<0, 1>>)
         THEN << <<first, last>> >>
                  \o find_address_range(addresses, i + 1, addresses[i], addresses[i])
    ELSE find_address_range(addresses, i + 1, first, addresses[i])

\* summarize_address_range(first, last): the aligned blocks that tile
\* first_int .. last_int
RECURSIVE summarize_address_range(_, _)
summarize_address_range(first_int, last_int) ==
    IF ~WLeq(first_int, last_int) THEN <<>>
    ELSE LET zero_bits == count_righthand_zero_bits(first_int, MAX_PREFIXLEN)
             span_bits == WBitLength(WAdd(WSub(last_int, first_int), <<0, 1>>)) - 1
             nbits     == IF zero_bits <= span_bits THEN zero_bits ELSE span_bits
             net       == NetOf(first_int, MAX_PREFIXLEN - nbits)
             next_int  == WAdd(first_int, WShl(<<0, 1>>, nbits))
         IN  IF WSub(next_int, <<0, 1>>) = ALL_ONES THEN <<net>>
             ELSE <<net>> \o summarize_address_range(next_int, last_int)

\* the blocks summarising each range of ranges[i..]
RECURSIVE SummarizeRanges(_, _)
SummarizeRanges(ranges, i) ==
    IF i > Len(ranges) THEN <<>>
    ELSE summarize_address_range(ranges[i][1], ranges[i][2])
             \o SummarizeRanges(ranges, i + 1)

\* the first loop of _collapse_addresses_internal.  The dict subnets is
\* kept as the set of its values; the key of a value is its supernet().
RECURSIVE MergeLoop(_, _)
MergeLoop(to_merge, subnets_values) ==
    IF Len(to_merge) = 0 THEN subnets_values
    ELSE LET net      == to_merge[Len(to_merge)]
             popped   == SubSeq(to_merge, 1, Len(to_merge) - 1)
             existing == { v \in subnets_values : supernet(v) = supernet(net) }
         IN  IF existing = {}
             THEN MergeLoop(popped, subnets_values \cup {net})
             ELSE IF existing # {net}
                  THEN MergeLoop(Append(popped, supernet(net)),
                                 subnets_values \ existing)
             ELSE MergeLoop(popped, subnets_values)

\* a second loop that yields every network, subsumed or not
KeepSubsumed(sorted, i, last) == SubSeq(sorted, i, Len(sorted))

\* the second loop of _collapse_addresses_internal over sorted[i..]:
\* networks subsumed by the last one yielded are skipped.  last is <<>>
\* for None.
RECURSIVE SkipSubsumed(_, _, _)
SkipSubsumed(sorted, i, last) ==
    IF i > Len(sorted) THEN <<>>
    ELSE IF /\ last # <<>>
            /\ WLeq(broadcast_address(sorted[i]), broadcast_address(last[1]))
         THEN SkipSubsumed(sorted, i + 1, last)
    ELSE <<sorted[i]>> \o SkipSubsumed(sorted, i + 1, <<sorted[i]>>)

collapse_addresses_internal(addresses) ==
    SkipSubsumed(SortedNetworks(MergeLoop(addresses, {})), 1, <<>>)

\* list(ipaddress.collapse_addresses(addresses)) for a list of networks:
\* the /32 networks go through address ranges, the others are taken as they
\* are
collapse_addresses(addresses) ==
    LET ips  == { addresses[i].network_address :
                      i \in { j \in 1..Len(addresses) :
                                  addresses[j].prefixlen = MAX_PREFIXLEN } }
        nets == SelectSeq(addresses, LAMBDA n : n.prefixlen # MAX_PREFIXLEN)
        sorted_ips == SortedAddresses(ips)
        addrs == IF ips = {} THEN <<>>
                 ELSE SummarizeRanges(
                          find_address_range(sorted_ips, 2, sorted_ips[1],
                                             sorted_ips[1]), 1)
    IN  collapse_addresses_internal(addrs \o nets)

\* str(IPv4Network): '%s/%d' % (network_address, prefixlen)
string_from_network(net) ==
    string_from_ip_int(net.network_address) \o <<"/">> \o IntStr(net.prefixlen)

-----------------------------------------------------------------------------
(* NetworkCalculator                                                       *)

Return(v) == [kind |-> "return", value |-> v]

\* msg: the text of the message, followed by the number formatted into it
Throw(e, m) == [kind |-> "raise", exc |-> e, msg |-> m]

\* validate_network
validate_network(network) == IPv4Network(network).ok

\* a conversion that leaves out the shift back to the left
cidr_to_netmask_unshifted(cidr) ==
    IF ~(0 <= cidr /\ cidr <= 32)
    THEN Throw("ValueError", <<"CIDR deve estar entre 0 e 32">>)
    ELSE Return(string_from_ip_int(WShr(ALL_ONES, 32 - cidr)))

\* cidr_to_netmask
cidr_to_netmask(cidr) ==
    IF ~(0 <= cidr /\ cidr <= 32)
    THEN Throw("ValueError", <<"CIDR deve estar entre 0 e 32">>)
    ELSE LET mask == WShl(WShr(ALL_ONES, 32 - cidr), 32 - cidr)
         IN  Return(string_from_ip_int(mask))

\* netmask_to_cidr
netmask_to_cidr(mask_text) ==
    LET net == IPv4Network(<<"0", ".", "0", ".", "0", ".", "0", "/">> \o mask_text)
    IN  IF net.ok THEN Return(net.val.prefixlen)
        ELSE IF net.exc = "NetmaskValueError"
             THEN Throw("ValueError", <<"Mascara de sub-rede invalida">>)
        ELSE Throw(net.exc, <<"">>)

\* a classification that takes the whole range 0..127 as class A
get_ip_class_classful(ip) ==
    LET ip_obj == IPv4AddressFromStr(ip)
    IN  IF ~ip_obj.ok THEN "Invalida"
        ELSE LET first_octet == ToOctets(ip_obj.val)[1]
             IN  IF first_octet <= 127 THEN "A"
                 ELSE IF first_octet <= 191 THEN "B"
                 ELSE IF first_octet <= 223 THEN "C"
                 ELSE IF first_octet <= 239 THEN "D (Multicast)"
                 ELSE "E (Experimental)"

\* _get_ip_class
get_ip_class(ip) ==
    LET ip_obj == IPv4AddressFromStr(ip)
    IN  IF ~ip_obj.ok THEN "Invalida"
        ELSE LET first_octet ==
                     ParseDigits(Split(string_from_ip_int(ip_obj.val), ".")[1])
             IN  IF 1 <= first_octet /\ first_octet <= 126 THEN "A"
                 ELSE IF 128 <= first_octet /\ first_octet <= 191 THEN "B"
                 ELSE IF 192 <= first_octet /\ first_octet <= 223 THEN "C"
                 ELSE IF 224 <= first_octet /\ first_octet <= 239
                      THEN "D (Multicast)"
                 ELSE IF 240 <= first_octet /\ first_octet <= 255
                      THEN "E (Experimental)"
                 ELSE "Indefinida"

\* self.private_ranges
private_ranges ==
    << Net(FromOctets(<<10, 0, 0, 0>>), 8),
       Net(FromOctets(<<172, 16, 0, 0>>), 12),
       Net(FromOctets(<<192, 168, 0, 0>>), 16) >>

\* a membership test that leaves out the first and last address of the block
ContainsStrictlyInside(net, ip) ==
    /\ WLess(net.network_address, ip)
    /\ WLess(ip, broadcast_address(net))

\* ip in net
Contains(net, ip) == WAnd(ip, netmask(net)) = net.network_address

\* _is_private
is_private(ip) == \E i \in 1..Len(private_ranges) : Contains(private_ranges[i], ip)

\* calculate_network_info
calculate_network_info(network) ==
    LET parsed == IPv4Network(network)
    IN  IF ~parsed.ok THEN Throw("ValueError", <<"Rede invalida">>)
        ELSE
        LET net   == parsed.val
            first == IPv4AddressFromInt(WAdd(net.network_address, <<0, 1>>))
            last  == IPv4AddressFromInt(WSub(broadcast_address(net), <<0, 1>>))
        IN  IF ~first.ok \/ ~last.ok THEN Throw("ValueError", <<"Rede invalida">>)
            ELSE Return(
                [rede            |-> string_from_ip_int(net.network_address),
                 mascara_cidr    |-> <<"/">> \o IntStr(net.prefixlen),
                 mascara_decimal |-> string_from_ip_int(netmask(net)),
                 broadcast       |-> string_from_ip_int(broadcast_address(net)),
                 primeiro_host   |-> string_from_ip_int(first.val),
                 ultimo_host     |-> string_from_ip_int(last.val),
                 total_hosts     |-> WStr(WSub(num_addresses(net), <<0, 2>>)),
                 total_enderecos |-> WStr(num_addresses(net)),
                 classe |-> get_ip_class(string_from_ip_int(net.network_address)),
                 tipo   |-> IF is_private(net.network_address)
                            THEN "Privada" ELSE "Publica"])

\* the fields both subnet_network and calculate_vlsm compute for a subnet;
\* network_address + 1 and broadcast_address - 1 must be valid addresses
SubnetFieldsOk(subnet) ==
    /\ IPv4AddressFromInt(WAdd(subnet.network_address, <<0, 1>>)).ok
    /\ IPv4AddressFromInt(WSub(broadcast_address(subnet), <<0, 1>>)).ok

SubnetFields(subnet) ==
    [rede          |-> string_from_ip_int(subnet.network_address),
     cidr          |-> <<"/">> \o IntStr(subnet.prefixlen),
     mascara       |-> string_from_ip_int(netmask(subnet)),
     broadcast     |-> string_from_ip_int(broadcast_address(subnet)),
     primeiro_host |-> string_from_ip_int(WAdd(subnet.network_address, <<0, 1>>)),
     ultimo_host   |-> string_from_ip_int(WSub(broadcast_address(subnet), <<0, 1>>)),
     hosts_disponiveis |-> WStr(WSub(num_addresses(subnet), <<0, 2>>))]

\* subnet_network
subnet_network(network, num_subnets) ==
    LET parsed == IPv4Network(network)
    IN  IF ~parsed.ok THEN Throw("ValueError", <<"Erro ao dividir rede">>)
        ELSE IF ~ceil_log2(num_subnets).ok
             THEN Throw("ValueError", <<"math domain error">>)
        ELSE
        LET net         == parsed.val
            bits_needed == ceil_log2(num_subnets).val
            new_prefix  == net.prefixlen + bits_needed
        IN  IF new_prefix > 32
            THEN Throw("ValueError", <<"Nao e possivel criar tantas sub-redes">>)
            ELSE
            LET taken == subnets(net, new_prefix, num_subnets)
            IN  IF \E i \in 1..Len(taken) : ~SubnetFieldsOk(taken[i])
                THEN Throw("ValueError", <<"Erro ao dividir rede">>)
                ELSE Return([i \in 1..Len(taken) |->
                                [subnet_id |-> i] @@ SubnetFields(taken[i])])

\* Python's None.  Text is a sequence of single characters, so this value
\* differs from every text.
None == <<"None">>

\* supernet_networks
supernet_networks(networks) ==
    IF \E i \in 1..Len(networks) : ~IPv4Network(networks[i]).ok
    THEN Return(None)
    ELSE LET net_objects   == [i \in 1..Len(networks) |-> IPv4Network(networks[i]).val]
             supernet_list == collapse_addresses(net_objects)
         IN  IF Len(supernet_list) = 1
             THEN Return(string_from_network(supernet_list[1]))
             ELSE Return(None)

\* ip_in_network
ip_in_network(ip, network) ==
    LET ip_obj  == IPv4AddressFromStr(ip)
        net_obj == IPv4Network(network)
    IN  IF ~ip_obj.ok THEN Return(FALSE)
        ELSE IF ~net_obj.ok THEN Return(FALSE)
        ELSE Return(Contains(net_obj.val, ip_obj.val))

\* a sort that leaves the requirements in the order given
InsertLast(sorted, item) == Append(sorted, item)

\* sorted(enumerate(host_requirements), key=lambda x: x[1], reverse=True):
\* pairs <<original_index, hosts_needed>>, largest first, equal keys in
\* their original order
RECURSIVE InsertDescending(_, _)
InsertDescending(sorted, item) ==
    IF Len(sorted) = 0 THEN <<item>>
    ELSE IF sorted[1][2] >= item[2]
         THEN <<sorted[1]>> \o InsertDescending(Tail(sorted), item)
    ELSE <<item>> \o sorted

RECURSIVE SortedRequirements(_, _)
SortedRequirements(host_requirements, n) ==
    IF n = 0 THEN <<>>
    ELSE InsertDescending(SortedRequirements(host_requirements, n - 1),
                          <<n - 1, host_requirements[n]>>)

\* result.sort(key=lambda x: x['ordem_original'])
RECURSIVE InsertByOrder(_, _)
InsertByOrder(sorted, rec) ==
    IF Len(sorted) = 0 THEN <<rec>>
    ELSE IF sorted[1].ordem_original <= rec.ordem_original
         THEN <<sorted[1]>> \o InsertByOrder(Tail(sorted), rec)
    ELSE <<rec>> \o sorted

RECURSIVE SortByOrder(_, _)
SortByOrder(result, n) ==
    IF n = 0 THEN <<>>
    ELSE InsertByOrder(SortByOrder(result, n - 1), result[n])

\* the for loop of calculate_vlsm from its i-th iteration on, followed by
\* the final sort and return
RECURSIVE VlsmLoop(_, _, _, _)
VlsmLoop(sorted_requirements, i, current_network, result) ==
    IF i > Len(sorted_requirements)
    THEN Return(SortByOrder(result, Len(result)))
    ELSE
    LET original_index == sorted_requirements[i][1]
        hosts_needed   == sorted_requirements[i][2]
    IN  IF ~ceil_log2(hosts_needed + 2).ok
        THEN Throw("ValueError", <<"math domain error">>)
        ELSE
        LET bits_for_hosts == ceil_log2(hosts_needed + 2).val
            new_prefix     == 32 - bits_for_hosts
        IN  IF new_prefix < current_network.prefixlen
            THEN Throw("ValueError", <<"Nao ha espaco suficiente para", hosts_needed>>)
            ELSE
            LET subnet == subnets(current_network, new_prefix, 1)[1]
                subnet_info ==
                    [ordem_original    |-> original_index + 1,
                     hosts_solicitados |-> hosts_needed] @@ SubnetFields(subnet)
                remaining_networks == address_exclude(current_network, subnet)
            IN  IF ~SubnetFieldsOk(subnet)
                THEN Throw("ValueError", <<"Erro no calculo VLSM">>)
                ELSE IF Len(remaining_networks) > 0
                     THEN VlsmLoop(sorted_requirements, i + 1,
                                   remaining_networks[1], Append(result, subnet_info))
                ELSE Return(SortByOrder(Append(result, subnet_info),
                                        Len(result) + 1))

\* calculate_vlsm
calculate_vlsm(network, host_requirements) ==
    LET parsed == IPv4Network(network)
    IN  IF ~parsed.ok THEN Throw("ValueError", <<"Erro no calculo VLSM">>)
        ELSE VlsmLoop(SortedRequirements(host_requirements, Len(host_requirements)),
                      1, parsed.val, <<>>)

-----------------------------------------------------------------------------
(* Inputs                                                                  *)

\* largest number of host requirements in one calculate_vlsm call
MaxReqs == 4

\* largest number of subnets asked of subnet_network
MaxSubnets == 9

\* dotted-decimal text of four octets
Dotted(o) == Join([i \in 1..4 |-> NatStr(o[i])], ".")

\* the text "a.b.c.d/n"
CidrText(o, n) == Dotted(o) \o <<"/">> \o IntStr(n)

Addrs ==
    { <<192, 168, 1, 0>>, <<192, 168, 1, 77>>, <<10, 0, 0, 1>>,
      <<172, 16, 5, 4>>, <<8, 8, 8, 8>>, <<127, 0, 0, 1>>,
      <<0, 0, 0, 0>>, <<255, 255, 255, 255>> }

Prefixes == 0..32

CidrTexts == { CidrText(o, n) : o \in Addrs, n \in Prefixes }

\* texts that are not of the form a.b.c.d/n with n in 0..32:
\*   '192.168.1.0/33'
\*   '256.1.1.0/24'
\*   '192.168.1.0/-1'
\*   '192.168.1.0'
\*   'abc.def.ghi.jkl/24'
\*   '10.0.0.1'
\*   '1.2.3.4/'
\*   '1.2.3.4/24/1'
\*   ''
\*   '1.2.3/8'
\*   '01.2.3.4/8'
\*   '1.2.3.4/255.255.255.0'
\*   '1.2.3.4/0.0.0.255'
\*   '1.2.3.4/255.0.255.0'
\*   '1.2.3.4/08'
OtherTexts ==
    { <<"1", "9", "2", ".", "1", "6", "8", ".", "1", ".", "0", "/", "3", "3">>,
      <<"2", "5", "6", ".", "1", ".", "1", ".", "0", "/", "2", "4">>,
      <<"1", "9", "2", ".", "1", "6", "8", ".", "1", ".", "0", "/", "-", "1">>,
      <<"1", "9", "2", ".", "1", "6", "8", ".", "1", ".", "0">>,
      <<"a", "b", "c", ".", "d", "e", "f", ".", "g", "h", "i", ".", "j", "k", "l", "/", "2", "4">>,
      <<"1", "0", ".", "0", ".", "0", ".", "1">>,
      <<"1", ".", "2", ".", "3", ".", "4", "/">>,
      <<"1", ".", "2", ".", "3", ".", "4", "/", "2", "4", "/", "1">>,
      <<>>,
      <<"1", ".", "2", ".", "3", "/", "8">>,
      <<"0", "1", ".", "2", ".", "3", ".", "4", "/", "8">>,
      <<"1", ".", "2", ".", "3", ".", "4", "/", "2", "5", "5", ".", "2", "5", "5", ".", "2", "5", "5", ".", "0">>,
      <<"1", ".", "2", ".", "3", ".", "4", "/", "0", ".", "0", ".", "0", ".", "2", "5", "5">>,
      <<"1", ".", "2", ".", "3", ".", "4", "/", "2", "5", "5", ".", "0", ".", "2", "5", "5", ".", "0">>,
      <<"1", ".", "2", ".", "3", ".", "4", "/", "0", "8">> }

NetworkTexts == CidrTexts \cup OtherTexts

\* 32-bit values offered as masks: p leading ones, p trailing ones, and
\* patterns with holes
MaskOctets ==
    { ToOctets(ip_int_from_prefix(p)) : p \in Prefixes }
    \cup { ToOctets(WShr(ALL_ONES, p)) : p \in Prefixes }
    \cup { <<255, 255, 0, 255>>, <<255, 0, 255, 0>>, <<255, 255, 255, 253>>,
           <<0, 255, 0, 0>>, <<128, 0, 0, 1>>, <<255, 254, 255, 0>>,
           <<1, 0, 0, 0>>, <<192, 168, 1, 0>> }

\* texts that are not dotted-decimal 32-bit values:
\*   '24'
\*   ''
\*   '1.2.3'
\*   '256.0.0.0'
\*   '255.255.255.0/1'
OtherMaskTexts ==
    { <<"2", "4">>,
      <<>>,
      <<"1", ".", "2", ".", "3">>,
      <<"2", "5", "6", ".", "0", ".", "0", ".", "0">>,
      <<"2", "5", "5", ".", "2", "5", "5", ".", "2", "5", "5", ".", "0", "/", "1">> }

MaskTexts == { Dotted(o) : o \in MaskOctets } \cup OtherMaskTexts

SubnetAddrs ==
    { <<192, 168, 1, 0>>, <<192, 168, 1, 9>>, <<10, 0, 0, 0>>,
      <<0, 0, 0, 0>>, <<255, 255, 255, 255>> }

SubnetPrefixes == {0, 8, 24, 29, 30, 31, 32}

SubnetCounts == (-1)..MaxSubnets

VlsmAddrs == { <<192, 168, 1, 0>>, <<192, 168, 1, 77>> }

VlsmPrefixes == {24, 26}

HostValues == {-2, -1, 10, 25, 50, 254}

\* all lists of at most n host requirements
RECURSIVE ListsUpTo(_)
ListsUpTo(n) ==
    IF n = 0 THEN { <<>> }
    ELSE ListsUpTo(n - 1)
         \cup { Append(l, h) : l \in { m \in ListsUpTo(n - 1) : Len(m) = n - 1 },
                               h \in HostValues }

ReqLists == ListsUpTo(MaxReqs)

\* largest number of networks in one supernet_networks call
MaxNets == 3

\* networks offered to supernet_networks, as <<octets, prefix length>>:
\* neighbours that merge, neighbours that do not (192.168.1.0/24 and
\* 192.168.2.0/24), nested blocks, a network given by a host address, single
\* addresses, and the two halves of the address space
SupernetNets ==
    { <<<<192, 168, 0, 0>>, 24>>, <<<<192, 168, 1, 0>>, 24>>,
      <<<<192, 168, 2, 0>>, 24>>, <<<<192, 168, 0, 0>>, 25>>,
      <<<<192, 168, 1, 77>>, 24>>,
      <<<<10, 0, 0, 4>>, 32>>, <<<<10, 0, 0, 5>>, 32>>,
      <<<<0, 0, 0, 0>>, 1>>, <<<<128, 0, 0, 0>>, 1>>,
      <<<<255, 255, 255, 255>>, 32>> }

\* texts that IPv4Network rejects:
\*   '256.1.1.0/24'
BadNetworkTexts ==
    { <<"2", "5", "6", ".", "1", ".", "1", ".", "0", "/", "2", "4">> }

SupernetTexts == { CidrText(x[1], x[2]) : x \in SupernetNets } \cup BadNetworkTexts

\* all lists of at most n network texts
RECURSIVE NetListsUpTo(_)
NetListsUpTo(n) ==
    IF n = 0 THEN { <<>> }
    ELSE NetListsUpTo(n - 1)
         \cup { Append(l, t) : l \in { m \in NetListsUpTo(n - 1) : Len(m) = n - 1 },
                               t \in SupernetTexts }

NetLists == NetListsUpTo(MaxNets)

\* addresses asked about by ip_in_network
MemberAddrs ==
    { <<192, 168, 1, 0>>, <<192, 168, 1, 255>>, <<192, 168, 1, 77>>,
      <<192, 168, 2, 1>>, <<192, 168, 0, 255>>, <<10, 0, 0, 1>>,
      <<0, 0, 0, 0>>, <<255, 255, 255, 255>> }

\* texts that IPv4Address rejects:
\*   '256.1.1.1'
\*   ''
\*   '1.2.3'
\*   '192.168.1.1/24'
BadAddressTexts ==
    { <<"2", "5", "6", ".", "1", ".", "1", ".", "1">>,
      <<>>,
      <<"1", ".", "2", ".", "3">>,
      <<"1", "9", "2", ".", "1", "6", "8", ".", "1", ".", "1", "/", "2", "4">> }

MemberTexts == { Dotted(o) : o \in MemberAddrs } \cup BadAddressTexts

\* networks asked about by ip_in_network: base addresses, a host address,
\* and texts that are not of the form a.b.c.d/n
MemberNetAddrs ==
    { <<192, 168, 1, 0>>, <<192, 168, 1, 77>>, <<0, 0, 0, 0>>,
      <<255, 255, 255, 255>> }

MemberNetTexts ==
    { CidrText(o, n) : o \in MemberNetAddrs, n \in Prefixes } \cup OtherTexts

\* addresses classified by _get_ip_class: every leading octet
ClassAddrs == { <<o, r, 0, 1>> : o \in 0..255, r \in {0, 255} }

ClassTexts == { Dotted(o) : o \in ClassAddrs } \cup BadAddressTexts

-----------------------------------------------------------------------------------------------------------------------------------------------------
(* The state machine.  The calculator keeps no state between calls, so a   *)
(* behaviour is one call: Init draws the method and its arguments, and the *)
(* method's action computes what the call returns or raises.               *)

\* call: the method called and its arguments
\* ret:  what the call returned or raised; Pending before it ran
VARIABLES call, ret

vars == <<call, ret>>

Calls ==
    { [op |-> "validate_network", network |-> t] : t \in NetworkTexts }
    \cup { [op |-> "cidr_to_netmask", cidr |-> c] : c \in (-2)..34 }
    \cup { [op |-> "netmask_to_cidr", netmask |-> t] : t \in MaskTexts }
    \cup { [op |-> "calculate_network_info", network |-> t] : t \in NetworkTexts }
    \cup { [op |-> "subnet_network", network |-> CidrText(o, n), num_subnets |-> k] :
               o \in SubnetAddrs, n \in SubnetPrefixes, k \in SubnetCounts }
    \cup { [op |-> "calculate_vlsm", network |-> CidrText(o, n),
            host_requirements |-> l] :
               o \in VlsmAddrs, n \in VlsmPrefixes, l \in ReqLists }
    \cup { [op |-> "supernet_networks", networks |-> l] : l \in NetLists }
    \cup { [op |-> "ip_in_network", ip |-> x, network |-> t] :
               x \in MemberTexts, t \in MemberNetTexts }
    \cup { [op |-> "_get_ip_class", ip |-> x] : x \in ClassTexts }

Pending == [kind |-> "pending"]

Init ==
    /\ call \in Calls
    /\ ret = Pending

ValidateNetwork ==
    /\ call.op = "validate_network"
    /\ ret = Pending
    /\ ret' = Return(validate_network(call.network))
    /\ UNCHANGED call

CidrToNetmask ==
    /\ call.op = "cidr_to_netmask"
    /\ ret = Pending
    /\ ret' = cidr_to_netmask(call.cidr)
    /\ UNCHANGED call

NetmaskToCidr ==
    /\ call.op = "netmask_to_cidr"
    /\ ret = Pending
    /\ ret' = netmask_to_cidr(call.netmask)
    /\ UNCHANGED call

CalculateNetworkInfo ==
    /\ call.op = "calculate_network_info"
    /\ ret = Pending
    /\ ret' = calculate_network_info(call.network)
    /\ UNCHANGED call

SubnetNetwork ==
    /\ call.op = "subnet_network"
    /\ ret = Pending
    /\ ret' = subnet_network(call.network, call.num_subnets)
    /\ UNCHANGED call

CalculateVlsm ==
    /\ call.op = "calculate_vlsm"
    /\ ret = Pending
    /\ ret' = calculate_vlsm(call.network, call.host_requirements)
    /\ UNCHANGED call

SupernetNetworks ==
    /\ call.op = "supernet_networks"
    /\ ret = Pending
    /\ ret' = supernet_networks(call.networks)
    /\ UNCHANGED call

IpInNetwork ==
    /\ call.op = "ip_in_network"
    /\ ret = Pending
    /\ ret' = ip_in_network(call.ip, call.network)
    /\ UNCHANGED call

GetIpClass ==
    /\ call.op = "_get_ip_class"
    /\ ret = Pending
    /\ ret' = Return(get_ip_class(call.ip))
    /\ UNCHANGED call

Next ==
    \/ ValidateNetwork
    \/ CidrToNetmask
    \/ NetmaskToCidr
    \/ CalculateNetworkInfo
    \/ SubnetNetwork
    \/ CalculateVlsm
    \/ SupernetNetworks
    \/ IpInNetwork
    \/ GetIpClass

Spec == Init /\ [][Next]_vars

-----------------------------------------------------------------------------
(* Vocabulary of the properties.  Blocks are described octet by octet,     *)
(* independently of the bit arithmetic above.                              *)

\* how many of the n leading one-bits of a mask fall into octet i
KeptBits(n, i) ==
    IF n - 8 * (i - 1) <= 0 THEN 0
    ELSE IF n - 8 * (i - 1) >= 8 THEN 8
    ELSE n - 8 * (i - 1)

\* the mask with n leading one-bits
MaskOf(n) == [i \in 1..4 |-> 256 - 2^(8 - KeptBits(n, i))]

\* lowest and highest address of the /n block that holds address o
BlockFirst(o, n) == [i \in 1..4 |-> o[i] - (o[i] % 2^(8 - KeptBits(n, i)))]

BlockLast(o, n) == [i \in 1..4 |-> BlockFirst(o, n)[i] + 2^(8 - KeptBits(n, i)) - 1]

\* the smallest number of bits b with 2^b >= n, for 1 <= n <= 2^30
BitsFor(n) == CHOOSE b \in 0..30 : 2^b >= n /\ (b = 0 \/ 2^(b - 1) < n)

\* the block a returned record describes: its first and last address, read
\* from the record's rede and cidr texts
RecPrefix(rec) == ParseDigits(Tail(rec.cidr))

RecFirst(rec) == ip_int_from_string(rec.rede).val

RecLast(rec) ==
    WSub(WAdd(RecFirst(rec), WShl(<<0, 1>>, 32 - RecPrefix(rec))), <<0, 1>>)

Returned == ret.kind = "return"

Raised == ret.kind = "raise"

IsVlsmCall == call.op = "calculate_vlsm" /\ ret # Pending

AllPositive(l) == \A i \in 1..Len(l) : l[i] >= 1

InsufficientSpace ==
    /\ Raised
    /\ ret.msg[1] = "Nao ha espaco suficiente para"

-----------------------------------------------------------------------------
(* Properties                                                              *)

\* C1: calculate_vlsm never returns a partial result: for a list of positive
\* host requirements it either returns exactly one record per requirement
\* or fails with the insufficient-space error.
VlsmNoPartialResult ==
    (IsVlsmCall /\ AllPositive(call.host_requirements))
        => \/ Returned /\ Len(ret.value) = Len(call.host_requirements)
           \/ InsufficientSpace

\* C2: the blocks returned by calculate_vlsm are pairwise disjoint and each
\* lies entirely inside the input network.
VlsmBlocksDisjointAndContained ==
    (IsVlsmCall /\ Returned) =>
        \A o \in VlsmAddrs, n \in VlsmPrefixes :
            call.network = CidrText(o, n) =>
                \A i \in 1..Len(ret.value) :
                    /\ WLeq(FromOctets(BlockFirst(o, n)), RecFirst(ret.value[i]))
                    /\ WLeq(RecLast(ret.value[i]), FromOctets(BlockLast(o, n)))
                    /\ \A j \in 1..Len(ret.value) :
                           i # j => \/ WLess(RecLast(ret.value[i]), RecFirst(ret.value[j]))
                                    \/ WLess(RecLast(ret.value[j]), RecFirst(ret.value[i]))

\* C2 witness: the call of the test suite returned its three blocks
VlsmThreeBlocksReturned ==
    /\ IsVlsmCall /\ Returned
    /\ call.network = CidrText(<<192, 168, 1, 0>>, 24)
    /\ call.host_requirements = <<50, 25, 10>>
    /\ Len(ret.value) = 3

\* C3: the output of calculate_vlsm is in input order: the i-th returned
\* record has ordem_original = i (1-based) and hosts_solicitados equal to
\* the i-th requirement.
VlsmOutputInInputOrder ==
    (IsVlsmCall /\ Returned) =>
        \A i \in 1..Len(ret.value) :
            /\ ret.value[i].ordem_original = i
            /\ ret.value[i].hosts_solicitados = call.host_requirements[i]

\* C4: every record calculate_vlsm returns for a requirement of h >= 1 hosts
\* has the prefix length of the smallest power-of-two block with at least
\* h usable addresses (size - 2): 32 - BitsFor(h + 2), and reports size - 2
\* usable hosts.
VlsmSmallestSufficientBlock ==
    (IsVlsmCall /\ Returned) =>
        \A i \in 1..Len(ret.value) :
            LET h == ret.value[i].hosts_solicitados
                b == BitsFor(h + 2)
            IN  h >= 1 =>
                    /\ ret.value[i].cidr = <<"/">> \o IntStr(32 - b)
                    /\ ret.value[i].hosts_disponiveis = IntStr(2^b - 2)
                    /\ 2^b - 2 >= h
                    /\ 2^(b - 1) - 2 < h

\* C4 witness: 50 hosts were given a /26 and 10 hosts a /28
VlsmFiftyGetsSlash26 ==
    /\ IsVlsmCall /\ Returned
    /\ call.host_requirements = <<10, 50>>
    /\ Len(ret.value) = 2
    /\ ret.value[1].cidr = <<"/", "2", "8">>
    /\ ret.value[2].cidr = <<"/", "2", "6">>

\* C5: netmask_to_cidr returns p exactly for the mask of p leading one-bits
\* followed by zero-bits and raises for every other 32-bit dotted-decimal
\* value.
NetmaskToCidrOnlyContiguous ==
    (call.op = "netmask_to_cidr" /\ ret # Pending) =>
        \A o \in MaskOctets :
            call.netmask = Dotted(o) =>
                IF \E p \in Prefixes : o = MaskOf(p)
                THEN Returned /\ o = MaskOf(ret.value)
                ELSE Raised

\* C6: validate_network accepts only texts of the form A.B.C.D/n with a
\* valid address and n in 0..32; a bare address is not accepted.
ValidateNetworkOnlyCidr ==
    (call.op = "validate_network" /\ Returned /\ ret.value = TRUE) =>
        LET parts == Split(call.network, "/")
        IN  /\ Len(parts) = 2
            /\ ip_int_from_string(parts[1]).ok
            /\ IsDigits(parts[2])
            /\ ParseDigits(parts[2]) <= 32

\* C7: the usable-host count is never negative: total_hosts of
\* calculate_network_info and hosts_disponiveis of subnet_network and
\* calculate_vlsm.
UsableHostsNeverNegative ==
    /\ (call.op = "calculate_network_info" /\ Returned)
           => ret.value.total_hosts[1] # "-"
    /\ (call.op \in {"subnet_network", "calculate_vlsm"} /\ Returned)
           => \A i \in 1..Len(ret.value) : ret.value[i].hosts_disponiveis[1] # "-"

\* C8: calculate_network_info is non-strict: the descriptor it returns for
\* a/n has rede = a AND mask(n), broadcast = rede OR NOT mask(n),
\* mascara_decimal = mask(n) and total_enderecos = 2^(32-n), and it is the
\* descriptor returned for the base address of the block.
InfoIsNonStrict ==
    (call.op = "calculate_network_info" /\ Returned) =>
        \A o \in Addrs, n \in Prefixes :
            call.network = CidrText(o, n) =>
                /\ ret.value.rede = Dotted(BlockFirst(o, n))
                /\ ret.value.broadcast = Dotted(BlockLast(o, n))
                /\ ret.value.mascara_decimal = Dotted(MaskOf(n))
                /\ ret.value.total_enderecos = WStr(WShl(<<0, 1>>, 32 - n))
                /\ ret = calculate_network_info(CidrText(BlockFirst(o, n), n))

\* C8 witness: a host address inside 192.168.1.0/24 was described
InfoOfHostAddress ==
    /\ call.op = "calculate_network_info" /\ Returned
    /\ call.network = CidrText(<<192, 168, 1, 77>>, 24)
    /\ ret.value.rede = Dotted(<<192, 168, 1, 0>>)
    /\ ret.value.broadcast = Dotted(<<192, 168, 1, 255>>)
    /\ ret.value.total_enderecos = <<"2", "5", "6">>

\* C9: for k >= 1 subnets of base/n with p = n + BitsFor(k) <= 32,
\* subnet_network returns exactly k records of prefix length p in ascending
\* order: the j-th has subnet_id = j and address base + (j-1) * 2^(32-p).
SubnetNetworkReturnsFirstK ==
    (call.op = "subnet_network" /\ ret # Pending) =>
        \A o \in SubnetAddrs, n \in SubnetPrefixes :
            (/\ call.network = CidrText(o, n)
             /\ call.num_subnets >= 1
             /\ n + BitsFor(call.num_subnets) <= 32) =>
                LET p == n + BitsFor(call.num_subnets)
                IN  /\ Returned
                    /\ Len(ret.value) = call.num_subnets
                    /\ \A j \in 1..Len(ret.value) :
                           /\ ret.value[j].subnet_id = j
                           /\ ret.value[j].cidr = <<"/">> \o IntStr(p)
                           /\ ret.value[j].rede =
                                  Dotted(ToOctets(WAdd(FromOctets(BlockFirst(o, n)),
                                                       WShl(<<0, j - 1>>, 32 - p))))

\* C10: subnet_network raises, and returns no list at all, whenever the
\* resulting prefix length n + BitsFor(k) would exceed 32 and whenever
\* k <= 0.
SubnetNetworkRejects ==
    (call.op = "subnet_network" /\ ret # Pending) =>
        \A o \in SubnetAddrs, n \in SubnetPrefixes :
            (/\ call.network = CidrText(o, n)
             /\ \/ call.num_subnets <= 0
                \/ n + BitsFor(call.num_subnets) > 32) => Raised

\* C10 witness: five subnets of a /30 and zero subnets of a /24 were refused
SubnetNetworkRefusedFive ==
    /\ call.op = "subnet_network" /\ Raised
    /\ \/ /\ call.network = CidrText(<<192, 168, 1, 0>>, 30)
          /\ call.num_subnets = 5
          /\ ret.msg = <<"Nao e possivel criar tantas sub-redes">>
       \/ /\ call.network = CidrText(<<192, 168, 1, 0>>, 24)
          /\ call.num_subnets = 0
          /\ ret.msg = <<"math domain error">>

\* first and last address of the block a valid network text a.b.c.d/n
\* stands for
TextFirst(t) ==
    FromOctets(BlockFirst(ToOctets(ip_int_from_string(Split(t, "/")[1]).val),
                          ParseDigits(Split(t, "/")[2])))

TextLast(t) ==
    FromOctets(BlockLast(ToOctets(ip_int_from_string(Split(t, "/")[1]).val),
                         ParseDigits(Split(t, "/")[2])))

\* the <<first, last>> pairs of the networks l[i..] of a list of texts
RECURSIVE BlocksOf(_, _)
BlocksOf(l, i) ==
    IF i > Len(l) THEN <<>>
    ELSE << <<TextFirst(l[i]), TextLast(l[i])>> >> \o BlocksOf(l, i + 1)

\* lowest and highest address of the union of the blocks b
UnionFirst(b) ==
    CHOOSE a \in { b[i][1] : i \in 1..Len(b) } :
        \A i \in 1..Len(b) : WLeq(a, b[i][1])

UnionLast(b) ==
    CHOOSE a \in { b[i][2] : i \in 1..Len(b) } :
        \A i \in 1..Len(b) : WLeq(b[i][2], a)

\* the union has no hole: the address after the end of every block but the
\* last lies in some block of the list
UnionIsRange(b, last) ==
    \A i \in 1..Len(b) :
        b[i][2] # last =>
            \E j \in 1..Len(b) :
                /\ WLeq(b[j][1], WAdd(b[i][2], <<0, 1>>))
                /\ WLeq(WAdd(b[i][2], <<0, 1>>), b[j][2])

\* the range first .. last is an aligned block of 2^k addresses
RangeIsBlock(first, last, k) ==
    /\ WAdd(WSub(last, first), <<0, 1>>) = WShl(<<0, 1>>, k)
    /\ WAnd(first, WSub(last, first)) = <<0, 0>>

\* the sum of the rounded block sizes 2^BitsFor(h + 2) of the requirements
RECURSIVE SumOfBlocks(_, _)
SumOfBlocks(l, i) ==
    IF i > Len(l) THEN 0 ELSE 2^BitsFor(l[i] + 2) + SumOfBlocks(l, i + 1)

\* the largest requirement of a non-empty list
MaxOf(l) == CHOOSE h \in { l[i] : i \in 1..Len(l) } : \A i \in 1..Len(l) : l[i] <= h

\* C11: for a non-empty list of valid networks supernet_networks returns the
\* network N exactly when the union of the inputs' address sets is one
\* aligned block N, and None in every other case, whatever the overlaps and
\* containments among the inputs.
SupernetIffUnionIsOneBlock ==
    (/\ call.op = "supernet_networks" /\ ret # Pending
     /\ Len(call.networks) >= 1
     /\ \A i \in 1..Len(call.networks) : call.networks[i] \notin BadNetworkTexts) =>
        LET b     == BlocksOf(call.networks, 1)
            first == UnionFirst(b)
            last  == UnionLast(b)
        IN  IF UnionIsRange(b, last) /\ \E k \in 0..32 : RangeIsBlock(first, last, k)
            THEN \E k \in 0..32 :
                     /\ RangeIsBlock(first, last, k)
                     /\ ret = Return(Dotted(ToOctets(first))
                                         \o <<"/">> \o IntStr(32 - k))
            ELSE ret = Return(None)

\* C11 witness: a nested block, a network given by a host address and its
\* neighbour were summarised as 192.168.0.0/23
SupernetOfOverlappingInputs ==
    /\ call.op = "supernet_networks" /\ Returned
    /\ call.networks = << CidrText(<<192, 168, 0, 0>>, 25),
                          CidrText(<<192, 168, 1, 77>>, 24),
                          CidrText(<<192, 168, 0, 0>>, 24) >>
    /\ ret.value = CidrText(<<192, 168, 0, 0>>, 23)

\* C12: a parse failure is never turned into a normal result:
\* supernet_networks with an unparseable network in its list does not return
\* None, and ip_in_network with an unparseable address or network does not
\* return False.
ParseFailureIsReported ==
    /\ (/\ call.op = "supernet_networks" /\ ret # Pending
        /\ \E i \in 1..Len(call.networks) : call.networks[i] \in BadNetworkTexts)
           => ret # Return(None)
    /\ (/\ call.op = "ip_in_network" /\ ret # Pending
        /\ \/ call.ip \in BadAddressTexts
           \/ call.network \in OtherTexts /\ ~IPv4Network(call.network).ok)
           => ret # Return(FALSE)

\* C13: round trip: for every prefix length p in 0..32,
\* netmask_to_cidr(cidr_to_netmask(p)) = p.
NetmaskRoundTrip ==
    (call.op = "cidr_to_netmask" /\ ret # Pending /\ call.cidr \in 0..32) =>
        /\ Returned
        /\ netmask_to_cidr(ret.value) = Return(call.cidr)

\* C13 witness: the masks of /0 and /32 were produced and convert back
RoundTripAtBothEnds ==
    /\ call.op = "cidr_to_netmask" /\ Returned
    /\ \/ call.cidr = 0 /\ netmask_to_cidr(ret.value) = Return(0)
       \/ call.cidr = 32 /\ netmask_to_cidr(ret.value) = Return(32)

\* C14: for a valid address x and a valid network text a/n (a need not be
\* the base of the block) ip_in_network returns True exactly when x and a
\* agree on their n leading bits; the first and last address of the block
\* are members.
MembershipIsMaskEquality ==
    (call.op = "ip_in_network" /\ ret # Pending) =>
        \A x \in MemberAddrs :
            call.ip = Dotted(x) =>
                \A o \in MemberNetAddrs, n \in Prefixes :
                    call.network = CidrText(o, n) =>
                        /\ Returned
                        /\ ret.value = (BlockFirst(x, n) = BlockFirst(o, n))

\* C14 witness: the broadcast address of 192.168.1.0/24 was found to be a
\* member of the network written 192.168.1.77/24
BroadcastIsMember ==
    /\ call.op = "ip_in_network" /\ Returned
    /\ call.ip = Dotted(<<192, 168, 1, 255>>)
    /\ call.network = CidrText(<<192, 168, 1, 77>>, 24)
    /\ ret.value = TRUE

\* C15: _get_ip_class depends on the leading octet o alone: 1..126 -> A,
\* 128..191 -> B, 192..223 -> C, 224..239 -> D (Multicast),
\* 240..255 -> E (Experimental); 0 and 127 give the undefined result
\* and never class A.
ClassByLeadingOctet ==
    (call.op = "_get_ip_class" /\ ret # Pending) =>
        \A o \in ClassAddrs :
            call.ip = Dotted(o) =>
                ret = Return(IF o[1] \in 1..126 THEN "A"
                             ELSE IF o[1] \in 128..191 THEN "B"
                             ELSE IF o[1] \in 192..223 THEN "C"
                             ELSE IF o[1] \in 224..239 THEN "D (Multicast)"
                             ELSE IF o[1] \in 240..255 THEN "E (Experimental)"
                             ELSE "Indefinida")

\* C15 witness: an address with leading octet 127 was classified as undefined
LoopbackIsUndefined ==
    /\ call.op = "_get_ip_class" /\ Returned
    /\ call.ip = Dotted(<<127, 0, 0, 1>>)
    /\ ret.value = "Indefinida"

\* C16: for p in 0..32 cidr_to_netmask returns the mask of p leading
\* one-bits and 32 - p trailing zero-bits (0.0.0.0 for 0, 255.255.255.255
\* for 32); for every other integer it raises the invalid-prefix error and
\* returns no mask.
CidrToNetmaskIsLeadingOnes ==
    (call.op = "cidr_to_netmask" /\ ret # Pending) =>
        IF call.cidr \in 0..32
        THEN /\ ret = Return(Dotted(MaskOf(call.cidr)))
             /\ call.cidr = 0 => ret.value = Dotted(<<0, 0, 0, 0>>)
             /\ call.cidr = 32 => ret.value = Dotted(<<255, 255, 255, 255>>)
        ELSE Raised /\ ret.exc = "ValueError"

\* C16 witness: /20 gave 255.255.240.0
MaskOfSlash20 ==
    /\ call.op = "cidr_to_netmask" /\ Returned
    /\ call.cidr = 20
    /\ ret.value = <<"2", "5", "5", ".", "2", "5", "5", ".", "2", "4", "0", ".", "0">>

\* C17: calculate_network_info returns a descriptor for every valid address
\* combined with every prefix length 0..32, /31 and /32 at the bottom and
\* top of the address space included; it raises only when the address or
\* the prefix fails to parse.
InfoReturnsForEveryValidNetwork ==
    (call.op = "calculate_network_info" /\ ret # Pending) =>
        /\ call.network \in CidrTexts => Returned
        /\ Raised => ~IPv4Network(call.network).ok

\* C18: allocation completeness of calculate_vlsm: for a network of prefix
\* n and positive requirements whose rounded block sizes 2^BitsFor(h + 2)
\* sum to at most 2^(32 - n), one record per requirement is returned.
VlsmAllocatesWhenSizesFit ==
    (IsVlsmCall /\ AllPositive(call.host_requirements)) =>
        \A o \in VlsmAddrs, n \in VlsmPrefixes :
            (/\ call.network = CidrText(o, n)
             /\ SumOfBlocks(call.host_requirements, 1) <= 2^(32 - n)) =>
                /\ Returned
                /\ Len(ret.value) = Len(call.host_requirements)

\* C19: in calculate_vlsm with a non-empty list of positive requirements
\* the insufficient-space error can arise only for the largest requirement,
\* the first one processed: it is raised exactly when
\* 32 - BitsFor(hmax + 2) is smaller than the prefix length of the input
\* network, and it then names hmax.
InsufficientSpaceOnlyForLargest ==
    (/\ IsVlsmCall
     /\ Len(call.host_requirements) >= 1
     /\ AllPositive(call.host_requirements)) =>
        \A o \in VlsmAddrs, n \in VlsmPrefixes :
            call.network = CidrText(o, n) =>
                LET hmax == MaxOf(call.host_requirements)
                IN  /\ InsufficientSpace <=> (32 - BitsFor(hmax + 2) < n)
                    /\ InsufficientSpace => ret.msg[2] = hmax

\* C19 witness: 254 hosts, asked for after 10 and 25, were refused in a /26
LargestRefusedInSlash26 ==
    /\ IsVlsmCall /\ InsufficientSpace
    /\ call.network = CidrText(<<192, 168, 1, 0>>, 26)
    /\ call.host_requirements = <<10, 25, 254>>
    /\ ret.msg[2] = 254

====
